---- MODULE Spec2Model ----
(***************************************************************************)
(* A model of the Battlesnake server of src/main.go: the HTTP handlers      *)
(* (HandleIndex, HandleStart, HandleMove, HandleEnd), the per-turn decision *)
(* makeMove with its helpers validMoves, isValid, isEdge, isFood, isSnake   *)
(* and randomMove, and the process-wide random generator of math/rand.      *)
(*                                                                          *)
(* Two specifications:                                                      *)
(*   Spec      the server: MaxHandlers goroutines serve requests that       *)
(*             arrive in any order and interleave at the handlers' steps;   *)
(*   SpecMove  one call of makeMove on every request of the bounded         *)
(*             family Requests.                                             *)
(***************************************************************************)
EXTENDS Integers, Sequences, FiniteSets

(***************************************************************************)
(* Bounds of the model.                                                     *)
(***************************************************************************)
\* Board widths range over 1..MaxWidth.
MaxWidth == 3
\* Board heights range over 1..MaxHeight.
MaxHeight == 2
\* The raw outputs of the random generator range over 0..RandBound-1.
RandBound == 4
\* The number of requests the server handles at once (one goroutine each).
MaxHandlers == 2

(***************************************************************************)
(* Data: Coord (17-20), Battlesnake (22-30), Board (32-37),                 *)
(* GameRequest (47-52), MoveResponse (54-57).  Only the fields the code     *)
(* reads are kept; Go's int is 64 bits wide and the model's coordinates     *)
(* stay far from its limits.                                                *)
(***************************************************************************)
Coord(x, y) == [X |-> x, Y |-> y]

Battlesnake(body, head) == [Body |-> body, Head |-> head]

Board(height, width, food, snakes) ==
    [Height |-> height, Width |-> width, Food |-> food, Snakes |-> snakes]

GameRequest(board, you) == [Board |-> board, You |-> you]

MoveResponse(m) == [Move |-> m]

\* request := GameRequest{} (95): the zero value, before Decode fills it.
ZeroRequest == GameRequest(Board(0, 0, <<>>, <<>>), Battlesnake(<<>>, Coord(0, 0)))

\* var moves []string (113): the nil slice.
NoMoves == <<>>

\* The move of a handler that has not called makeMove yet.
NoResponse == MoveResponse("")

\* The outcome of a call that panics (rand.Intn panics on n <= 0): no
\* MoveResponse is returned.
Panic == MoveResponse("panic")

(***************************************************************************)
(* The decision: validMoves and its helpers.                                *)
(***************************************************************************)
\* A plausible slip (or repair): the bottom edge is tested like the right one.
isEdgeSymmetric(pos, board) ==
    \/ pos.X > board.Width - 1
    \/ pos.Y > board.Height - 1
    \/ pos.X < 0
    \/ pos.Y < 0

\* isEdge (154-156).
isEdge(pos, board) ==
    \/ pos.X > board.Width - 1
    \/ pos.Y > board.Height + 1
    \/ pos.X < 0
    \/ pos.Y < 0

\* isFood (158-165): the loop returns true at the first food equal to pos.
isFood(pos, board) ==
    \E i \in 1..Len(board.Food) :
        board.Food[i].Y = pos.Y /\ board.Food[i].X = pos.X

\* A plausible slip: only the Head fields are compared, the loop over Body
\* is missing.
isSnakeHeadsOnly(pos, board) ==
    \E i \in 1..Len(board.Snakes) :
        board.Snakes[i].Head.Y = pos.Y /\ board.Snakes[i].Head.X = pos.X

\* isSnake (167-179): for each snake of board.Snakes, in order, each segment
\* of Body and then the Head field; true at the first one equal to pos.
isSnake(pos, board) ==
    \E i \in 1..Len(board.Snakes) :
        LET snake == board.Snakes[i] IN
        \/ \E j \in 1..Len(snake.Body) :
               snake.Body[j].Y = pos.Y /\ snake.Body[j].X = pos.X
        \/ snake.Head.Y = pos.Y /\ snake.Head.X = pos.X

\* A plausible slip: the occupancy test is left out.
isValidEdgeOnly(pos, board) == ~isEdge(pos, board)

\* A plausible slip: a cell holding food is taken for an obstacle.
isValidAvoidFood(pos, board) ==
    ~isEdge(pos, board) /\ ~isSnake(pos, board) /\ ~isFood(pos, board)

\* isValid (150-152).
isValid(pos, board) == ~isEdge(pos, board) /\ ~isSnake(pos, board)

\* validMoves (112-148): the four candidates are tried in the order left,
\* right, down, up, and each valid one is appended.
validMoves(pos, board) ==
    LET left  == Coord(pos.X - 1, pos.Y)
        right == Coord(pos.X + 1, pos.Y)
        down  == Coord(pos.X, pos.Y + 1)
        up    == Coord(pos.X, pos.Y - 1)
        m1 == IF isValid(left, board) THEN Append(NoMoves, "left") ELSE NoMoves
        m2 == IF isValid(right, board) THEN Append(m1, "right") ELSE m1
        m3 == IF isValid(down, board) THEN Append(m2, "down") ELSE m2
        m4 == IF isValid(up, board) THEN Append(m3, "up") ELSE m3
    IN m4

(***************************************************************************)
(* The random generator.  rand.Intn(n) (math/rand, outside the repository)  *)
(* reduces a raw output r of the generator to r % n and panics when n <= 0; *)
(* -1 stands for the panic.                                                 *)
(***************************************************************************)
RandValues == 0..(RandBound - 1)

Intn(r, n) == IF n <= 0 THEN -1 ELSE r % n

\* possibleMoves[k] of a Go slice, 0-based; an index out of range panics.
Index(moves, k) ==
    IF k + 1 \in 1..Len(moves) THEN MoveResponse(moves[k + 1]) ELSE Panic

\* A plausible slip: "right" is missing from the list.
randomMoveThree(r) ==
    LET possibleMoves == <<"up", "down", "left">>
    IN Index(possibleMoves, Intn(r, Len(possibleMoves)))

\* randomMove (193-200).
randomMove(r) ==
    LET possibleMoves == <<"up", "down", "left", "right">>
    IN Index(possibleMoves, Intn(r, Len(possibleMoves)))

\* A plausible slip: the test for an empty slice is missing.
selectMoveNoFallback(possibleMoves, r) ==
    Index(possibleMoves, Intn(r, Len(possibleMoves)))

\* A plausible slip: the filtered moves are computed and then ignored.
selectMoveUnfiltered(possibleMoves, r) == randomMove(r)

\* makeMove (183-189), after validMoves has returned possibleMoves.
selectMove(possibleMoves, r) ==
    IF Len(possibleMoves) = 0
    THEN randomMove(r)
    ELSE Index(possibleMoves, Intn(r, Len(possibleMoves)))

\* makeMove (181-190) with r the generator's output for its one call of
\* rand.Intn.
makeMove(game, r) == selectMove(validMoves(game.You.Head, game.Board), r)

(***************************************************************************)
(* The requests.  A body is what a client sends: it either fails to decode  *)
(* or decodes to the GameRequest it carries.  json.Decoder accepts any      *)
(* well-formed document, so a request need not be one the game server       *)
(* would send: the You snake may be missing from Board.Snakes, a Body may   *)
(* be empty, a Head may differ from Body[0] or lie off the board.           *)
(***************************************************************************)
Dirs == <<"left", "right", "down", "up">>

DirSet == {Dirs[i] : i \in 1..Len(Dirs)}

\* The cell one unit from pos in direction d: y grows downward.
Offset(pos, d) ==
    CASE d = "left"  -> Coord(pos.X - 1, pos.Y)
      [] d = "right" -> Coord(pos.X + 1, pos.Y)
      [] d = "down"  -> Coord(pos.X, pos.Y + 1)
      [] d = "up"    -> Coord(pos.X, pos.Y - 1)

\* A cell that is no neighbour of pos.
FarCell(pos) == Coord(pos.X + 2, pos.Y + 2)

\* The neighbours of pos in the directions of ds, in the order of Dirs.
NeighbourSeq(pos, ds) ==
    LET chosen == SelectSeq(Dirs, LAMBDA d : d \in ds)
    IN [i \in 1..Len(chosen) |-> Offset(pos, chosen[i])]

\* Bodies of the You snake: empty, or the head followed by any set of its
\* neighbours.
OwnBodies(head) ==
    {<<>>} \cup {<<head>> \o NeighbourSeq(head, ds) : ds \in SUBSET DirSet}

\* The other snakes of the board: none, one whose Head field alone lies on a
\* neighbour of head (its Body lies elsewhere), or one with a Body segment
\* on a neighbour of head.
OpponentLists(head) ==
    {<<>>}
    \cup {<<Battlesnake(<<FarCell(head)>>, Offset(head, d))>> : d \in DirSet}
    \cup {<<Battlesnake(<<FarCell(head), Offset(head, d)>>, FarCell(head))>> :
              d \in DirSet}

\* Food lists: none, food on the head's left, food right of and below it.
FoodChoices(head) ==
    {<<>>, <<Offset(head, "left")>>, <<Offset(head, "right"), Offset(head, "down")>>}

\* Heads on a width x height board: every column, and every row down to the
\* last one the bounds rule of isEdge accepts.
Heads(width, height) ==
    {Coord(x, y) : x \in 0..(width - 1), y \in 0..(height + 1)}

\* The requests whose You snake has its head on head.
RequestsAt(width, height, head) ==
    {LET you == Battlesnake(own, head)
         snakes == (IF listed THEN <<you>> ELSE <<>>) \o opp
     IN GameRequest(Board(height, width, food, snakes), you) :
        own \in OwnBodies(head),
        listed \in BOOLEAN,
        opp \in OpponentLists(head),
        food \in {<<>>, <<Offset(head, "right"), Offset(head, "down")>>}}

\* The boards and heads makeMove is tried on: every board of 1..MaxWidth by
\* 1..MaxHeight and every head of it.
Positions ==
    UNION {{<<w, h, p>> : p \in Heads(w, h)} :
               w \in 1..MaxWidth, h \in 1..MaxHeight}

\* The requests sent to the server: a 1 x 1 board whose only snake is the
\* You snake, alone or with a segment below its head.
ServedRequests ==
    {GameRequest(Board(1, 1, <<>>, <<Battlesnake(own, head)>>),
                 Battlesnake(own, head)) :
        <<head, own>> \in
            UNION {{<<p, <<p>> \o NeighbourSeq(p, ds)>> : ds \in {{}, {"down"}}} :
                       p \in Heads(1, 1)}}

\* A request body: one that decodes to game, or one that does not decode.
WellFormed(game) == [ok |-> TRUE, game |-> game]

Malformed == [ok |-> FALSE, game |-> ZeroRequest]

\* The bodies sent to a path: a request of / carries none, which is no JSON
\* document (HandleIndex never reads it).
ServedBodies(ep) ==
    IF ep = "/"
    THEN {Malformed}
    ELSE {WellFormed(g) : g \in ServedRequests} \cup {Malformed}

Endpoints == {"/", "/start", "/move", "/end"}

(***************************************************************************)
(* The state of the process.                                                *)
(***************************************************************************)
VARIABLES
    alive,          \* the process runs: log.Fatal has not been called
    pc,             \* where each handler goroutine stands
    endpoint,       \* the path of the request a handler serves
    body,           \* the body of that request
    request,        \* HandleMove's local request (95)
    possibleMoves,  \* makeMove's local possibleMoves (182)
    move            \* HandleMove's local move (101)

vars == <<alive, pc, endpoint, body, request, possibleMoves, move>>

locals == <<endpoint, body, request, possibleMoves, move>>

Handlers == 1..MaxHandlers

\* No request in flight.
Idle ==
    /\ alive = TRUE
    /\ endpoint = [h \in Handlers |-> "/"]
    /\ body = [h \in Handlers |-> Malformed]
    /\ request = [h \in Handlers |-> ZeroRequest]
    /\ possibleMoves = [h \in Handlers |-> NoMoves]
    /\ move = [h \in Handlers |-> NoResponse]

\* main (215-228): the server listens and no request has arrived.
Init ==
    /\ Idle
    /\ pc = [h \in Handlers |-> "idle"]

\* log.Fatal (74, 85, 98, 107, 208): os.Exit(1) ends the process, and with
\* it every handler.
Fatal(h) ==
    /\ alive' = FALSE
    /\ pc' = [pc EXCEPT ![h] = "fatal"]
    /\ UNCHANGED locals

\* The handler returns: its locals are discarded.
Return(h) ==
    /\ pc' = [pc EXCEPT ![h] = "idle"]
    /\ endpoint' = [endpoint EXCEPT ![h] = "/"]
    /\ body' = [body EXCEPT ![h] = Malformed]
    /\ request' = [request EXCEPT ![h] = ZeroRequest]
    /\ possibleMoves' = [possibleMoves EXCEPT ![h] = NoMoves]
    /\ move' = [move EXCEPT ![h] = NoResponse]
    /\ UNCHANGED alive

\* net/http starts a goroutine for a request of path ep and body b
\* (221-224, 227).
Receive(h, ep, b) ==
    /\ alive
    /\ pc[h] = "idle"
    /\ pc' = [pc EXCEPT ![h] = "received"]
    /\ endpoint' = [endpoint EXCEPT ![h] = ep]
    /\ body' = [body EXCEPT ![h] = b]
    /\ UNCHANGED <<alive, request, possibleMoves, move>>

\* HandleIndex (62-76): the response is encoded; a failed write (the client
\* is gone, the method allows no body) is fatal.
HandleIndex(h) ==
    /\ alive
    /\ pc[h] = "received"
    /\ endpoint[h] = "/"
    /\ \E written \in BOOLEAN : IF written THEN Return(h) ELSE Fatal(h)

\* HandleStart (81-90).
HandleStart(h) ==
    /\ alive
    /\ pc[h] = "received"
    /\ endpoint[h] = "/start"
    /\ IF body[h].ok THEN Return(h) ELSE Fatal(h)

\* HandleEnd (204-213).
HandleEnd(h) ==
    /\ alive
    /\ pc[h] = "received"
    /\ endpoint[h] = "/end"
    /\ IF body[h].ok THEN Return(h) ELSE Fatal(h)

\* A plausible slip: the decoding error is answered (400) and the handler
\* returns.
DecodeFailedReturn(h) == Return(h)

\* HandleMove (97-99): err != nil.
DecodeFailed(h) == Fatal(h)

\* HandleMove (95-99).
DecodeMove(h) ==
    /\ alive
    /\ pc[h] = "received"
    /\ endpoint[h] = "/move"
    /\ IF body[h].ok
       THEN /\ pc' = [pc EXCEPT ![h] = "decoded"]
            /\ request' = [request EXCEPT ![h] = body[h].game]
            /\ UNCHANGED <<alive, endpoint, body, possibleMoves, move>>
       ELSE DecodeFailed(h)

\* A plausible slip: request is a package-level variable, so a handler reads
\* what the handler that decoded last (here: the other one) wrote.
SharedRequest(h) ==
    IF \E j \in Handlers : j # h /\ pc[j] # "idle"
    THEN request[CHOOSE j \in Handlers : j # h /\ pc[j] # "idle"]
    ELSE request[h]

\* makeMove(request) (101): the handler's own local.
OwnRequest(h) == request[h]

\* HandleMove (101): makeMove.  Its one call of rand.Intn draws r from the
\* process-wide generator, whose functions lock it; what the generator
\* yields next is any value, whatever was drawn before.  A panic would end
\* the goroutine without a response.
MakeMove(h) ==
    /\ alive
    /\ pc[h] = "decoded"
    /\ \E r \in RandValues :
        LET game == OwnRequest(h)
            response == makeMove(game, r)
        IN /\ possibleMoves' =
                  [possibleMoves EXCEPT ![h] = validMoves(game.You.Head, game.Board)]
           /\ move' = [move EXCEPT ![h] = response]
           /\ pc' = [pc EXCEPT ![h] = IF response = Panic THEN "panicked" ELSE "moved"]
    /\ UNCHANGED <<alive, endpoint, body, request>>

\* HandleMove (103-108): the move is printed and encoded; a failed write is
\* fatal.
EncodeMove(h) ==
    /\ alive
    /\ pc[h] = "moved"
    /\ \E written \in BOOLEAN : IF written THEN Return(h) ELSE Fatal(h)

Next ==
    \E h \in Handlers :
        \/ \E ep \in Endpoints : \E b \in ServedBodies(ep) : Receive(h, ep, b)
        \/ HandleIndex(h)
        \/ HandleStart(h)
        \/ HandleEnd(h)
        \/ DecodeMove(h)
        \/ MakeMove(h)
        \/ EncodeMove(h)

Spec == Init /\ [][Next]_vars

\* One call of makeMove: handler 1 has received and decoded a /move request
\* of Requests (94-99) and is about to call makeMove.
InitMove ==
    \E at \in Positions : \E g \in RequestsAt(at[1], at[2], at[3]) :
        /\ alive = TRUE
            /\ pc = [h \in Handlers |-> IF h = 1 THEN "decoded" ELSE "idle"]
        /\ endpoint = [h \in Handlers |-> IF h = 1 THEN "/move" ELSE "/"]
        /\ body = [h \in Handlers |-> IF h = 1 THEN WellFormed(g) ELSE Malformed]
        /\ request = [h \in Handlers |-> IF h = 1 THEN g ELSE ZeroRequest]
        /\ possibleMoves = [h \in Handlers |-> NoMoves]
        /\ move = [h \in Handlers |-> NoResponse]

NextMove == \E h \in Handlers : MakeMove(h)

SpecMove == InitMove /\ [][NextMove]_vars

(***************************************************************************)
(* What the claims speak of.                                                *)
(***************************************************************************)
Range(seq) == {seq[i] : i \in 1..Len(seq)}

\* makeMove has returned in handler h.
Called(h) == pc[h] \in {"moved", "panicked"}

\* The bounds rule as the specification words it.
InBoundsRule(c, board) ==
    /\ ~(c.X > board.Width - 1)
    /\ ~(c.X < 0)
    /\ ~(c.Y < 0)
    /\ ~(c.Y > board.Height + 1)

\* The cell lies on the board.
OnBoard(c, board) ==
    /\ 0 <= c.X /\ c.X <= board.Width - 1
    /\ 0 <= c.Y /\ c.Y <= board.Height - 1

\* The cells holding a body segment or the head field of a snake of the board.
OccupiedCells(board) ==
    UNION {Range(board.Snakes[i].Body) \cup {board.Snakes[i].Head} :
               i \in 1..Len(board.Snakes)}

\* The You snake is one of the snakes of the board.
YouListed(game) == \E i \in 1..Len(game.Board.Snakes) : game.Board.Snakes[i] = game.You

\* A valid request: positive dimensions and no empty body.
ValidRequest(game) ==
    /\ game.Board.Width >= 1
    /\ game.Board.Height >= 1
    /\ Len(game.You.Body) >= 1
    /\ \A i \in 1..Len(game.Board.Snakes) : Len(game.Board.Snakes[i].Body) >= 1

\* The moves makeMove can return for game, over every output of the generator.
PossibleResponses(game) == {makeMove(game, r) : r \in RandValues}

\* The four moves as responses.
FourMoves == {MoveResponse(d) : d \in DirSet}

\* game with its food replaced.
WithFood(game, food) == [game EXCEPT !.Board.Food = food]

(***************************************************************************)
(* C1: a direction is in the result of validMoves(head, board) if and only  *)
(* if the cell one unit from head in that direction satisfies the bounds    *)
(* rule (not x > width-1, not x < 0, not y < 0, not y > height+1) and       *)
(* equals no body segment and no head field of a snake of board.Snakes.     *)
(***************************************************************************)
C1_SafeFilter ==
    \A h \in Handlers :
        Called(h) =>
            LET game == request[h] IN
            /\ Range(possibleMoves[h]) \subseteq DirSet
            /\ \A d \in DirSet :
                   d \in Range(possibleMoves[h])
                   <=> /\ InBoundsRule(Offset(game.You.Head, d), game.Board)
                       /\ Offset(game.You.Head, d) \notin OccupiedCells(game.Board)

\* One direction is excluded by the bounds rule, one by a snake, two remain.
C1_Witness ==
    \E h \in Handlers :
        /\ Called(h)
        /\ Len(possibleMoves[h]) = 2
        /\ \E d \in DirSet :
               ~InBoundsRule(Offset(request[h].You.Head, d), request[h].Board)
        /\ \E d \in DirSet :
               /\ InBoundsRule(Offset(request[h].You.Head, d), request[h].Board)
               /\ Offset(request[h].You.Head, d) \in OccupiedCells(request[h].Board)

(***************************************************************************)
(* C2: on a valid request (width, height >= 1, no empty body) makeMove      *)
(* returns, without a panic, a response whose move is one of up, down,      *)
(* left, right, whatever the generator yields.                              *)
(***************************************************************************)
C2_Totality ==
    \A h \in Handlers :
        Called(h) /\ ValidRequest(request[h]) =>
            /\ pc[h] = "moved"
            /\ move[h] # Panic
            /\ move[h] \in FourMoves
            /\ PossibleResponses(request[h]) \subseteq FourMoves

\* A valid request with no safe move was answered.
C2_Witness ==
    \E h \in Handlers :
        /\ Called(h)
        /\ ValidRequest(request[h])
        /\ possibleMoves[h] = NoMoves
        /\ move[h] \in FourMoves

(***************************************************************************)
(* C3: when validMoves(You.Head, Board) is not empty, the move returned is  *)
(* one of its elements, and each of its elements is returned for some       *)
(* output of the generator.                                                 *)
(***************************************************************************)
C3_SelectsSafe ==
    \A h \in Handlers :
        Called(h) /\ possibleMoves[h] # NoMoves =>
            /\ move[h].Move \in Range(possibleMoves[h])
            /\ {m.Move : m \in PossibleResponses(request[h])} = Range(possibleMoves[h])

\* Exactly two moves were safe and the second one was returned.
C3_Witness ==
    \E h \in Handlers :
        /\ Called(h)
        /\ Len(possibleMoves[h]) = 2
        /\ move[h].Move = possibleMoves[h][2]

(***************************************************************************)
(* C4: when validMoves(You.Head, Board) is empty, makeMove still returns a  *)
(* move, and the moves it can return are all four directions, whatever the  *)
(* board holds.                                                             *)
(***************************************************************************)
C4_Fallback ==
    \A h \in Handlers :
        Called(h) /\ possibleMoves[h] = NoMoves =>
            /\ move[h] \in FourMoves
            /\ PossibleResponses(request[h]) = FourMoves

\* The head is surrounded by body segments on four cells the bounds rule
\* accepts, and the move returned is "right".
C4_Witness ==
    \E h \in Handlers :
        /\ Called(h)
        /\ possibleMoves[h] = NoMoves
        /\ \A d \in DirSet :
               /\ InBoundsRule(Offset(request[h].You.Head, d), request[h].Board)
               /\ Offset(request[h].You.Head, d) \in OccupiedCells(request[h].Board)
        /\ move[h] = MoveResponse("right")

(***************************************************************************)
(* C5, as claimed: for every request, a direction whose cell equals a       *)
(* segment of the body of the request's You snake is excluded from the      *)
(* safe moves.                                                              *)
(***************************************************************************)
C5_OwnBodyExcluded ==
    \A h \in Handlers :
        Called(h) =>
            \A d \in DirSet :
                Offset(request[h].You.Head, d) \in Range(request[h].You.Body)
                => d \notin Range(possibleMoves[h])

(***************************************************************************)
(* C5, amended: occupancy is read from Board.Snakes alone.  A direction     *)
(* whose cell equals a body segment of any snake listed there is excluded,  *)
(* the agent's own snake like any other; hence, when the You snake of the   *)
(* request is listed in Board.Snakes, every direction onto a segment of     *)
(* You.Body is excluded.                                                    *)
(***************************************************************************)
C5_ListedBodiesExcluded ==
    \A h \in Handlers :
        Called(h) =>
            LET game == request[h] IN
            /\ \A i \in 1..Len(game.Board.Snakes) : \A d \in DirSet :
                   Offset(game.You.Head, d) \in Range(game.Board.Snakes[i].Body)
                   => d \notin Range(possibleMoves[h])
            /\ YouListed(game) =>
                   \A d \in DirSet :
                       Offset(game.You.Head, d) \in Range(game.You.Body)
                       => d \notin Range(possibleMoves[h])

\* Only the agent's own body blocks three directions, on cells the bounds
\* rule accepts, and the fourth is the one safe move.
C5_Witness ==
    \E h \in Handlers :
        LET game == request[h] IN
        /\ Called(h)
        /\ YouListed(game)
        /\ Len(game.Board.Snakes) = 1
        /\ Len(possibleMoves[h]) = 1
        /\ \A d \in DirSet \ Range(possibleMoves[h]) :
               /\ InBoundsRule(Offset(game.You.Head, d), game.Board)
               /\ Offset(game.You.Head, d) \in Range(game.You.Body)

(***************************************************************************)
(* C6: food never influences the decision: a request that differs only in   *)
(* the board's food has the same validMoves and the same possible moves.    *)
(***************************************************************************)
C6_FoodIgnored ==
    \A h \in Handlers :
        Called(h) =>
            LET responses == PossibleResponses(request[h]) IN
            \A food \in FoodChoices(request[h].You.Head) :
                LET other == WithFood(request[h], food) IN
                /\ validMoves(other.You.Head, other.Board) = possibleMoves[h]
                /\ PossibleResponses(other) = responses

\* Food lies right of and below the head, both are safe moves; the move
\* returned is "down", onto food.
C6_Witness ==
    \E h \in Handlers :
        /\ Called(h)
        /\ request[h].Board.Food # <<>>
        /\ {"right", "down"} \subseteq Range(possibleMoves[h])
        /\ isFood(Offset(request[h].You.Head, "down"), request[h].Board)
        /\ move[h] = MoveResponse("down")

(***************************************************************************)
(* C7, as claimed: for a head inside the board, each direction of           *)
(* validMoves(head, board) leads to a cell that lies on the board           *)
(* (0 <= x <= width-1 and 0 <= y <= height-1) and holds no snake.           *)
(***************************************************************************)
C7_NoDeath ==
    \A h \in Handlers :
        Called(h) /\ OnBoard(request[h].You.Head, request[h].Board) =>
            \A d \in Range(possibleMoves[h]) :
                /\ OnBoard(Offset(request[h].You.Head, d), request[h].Board)
                /\ Offset(request[h].You.Head, d) \notin OccupiedCells(request[h].Board)

(***************************************************************************)
(* C8: the bounds check is asymmetric.  A move to x = -1, x = width or      *)
(* y = -1 is always excluded; a free cell with 0 <= x <= width-1 and        *)
(* y = height or y = height+1 is accepted; y >= height+2 is excluded; and   *)
(* a free cell is excluded exactly when x > width-1, x < 0, y < 0 or        *)
(* y > height+1.                                                            *)
(***************************************************************************)
C8_AsymmetricBounds ==
    \A h \in Handlers :
        Called(h) =>
            \A d \in DirSet :
                LET board == request[h].Board
                    c == Offset(request[h].You.Head, d)
                    safe == d \in Range(possibleMoves[h])
                    free == c \notin OccupiedCells(board)
                IN /\ (c.X = -1 \/ c.X = board.Width \/ c.Y = -1) => ~safe
                   /\ ( /\ 0 <= c.X /\ c.X <= board.Width - 1
                        /\ c.Y \in {board.Height, board.Height + 1}
                        /\ free ) => safe
                   /\ c.Y >= board.Height + 2 => ~safe
                   /\ free =>
                          (~safe <=> \/ c.X > board.Width - 1
                                     \/ c.X < 0
                                     \/ c.Y < 0
                                     \/ c.Y > board.Height + 1)

\* From a head one row below the board the move returned is "down", to the
\* row y = height+1.
C8_Witness ==
    \E h \in Handlers :
        /\ Called(h)
        /\ request[h].You.Head.Y = request[h].Board.Height
        /\ move[h] = MoveResponse("down")

\* Handler h serves a request.
Busy(h) == pc[h] \in {"received", "decoded", "moved"}

\* The locals of handler h.
LocalsOf(h) == <<endpoint[h], body[h], request[h], possibleMoves[h], move[h]>>

\* The locals of a handler that serves no request.
ZeroLocals == <<"/", Malformed, ZeroRequest, NoMoves, NoResponse>>

\* Handler h takes a step.
Steps(h) == pc'[h] # pc[h] \/ LocalsOf(h)' # LocalsOf(h)

(***************************************************************************)
(* C9: each move decision is independent and stateless under any            *)
(* interleaving of the handlers: what a call returns is a move possible     *)
(* for its own request and its safe moves are those of its own request,     *)
(* whatever the other handlers do; a handler's step changes no other        *)
(* handler's locals; and a handler that returns leaves nothing behind, so   *)
(* the next request it serves starts from the zero values.                  *)
(***************************************************************************)
C9_Independent ==
    /\ [](\A h \in Handlers :
              /\ Called(h) =>
                     /\ possibleMoves[h] =
                            validMoves(body[h].game.You.Head, body[h].game.Board)
                     /\ move[h] \in PossibleResponses(body[h].game)
              /\ pc[h] \in {"idle", "received"} =>
                     /\ request[h] = ZeroRequest
                     /\ possibleMoves[h] = NoMoves
                     /\ move[h] = NoResponse
              /\ pc[h] = "idle" => LocalsOf(h) = ZeroLocals)
    /\ [][\A h \in Handlers :
              Steps(h) =>
                  \A j \in Handlers \ {h} :
                      pc'[j] = pc[j] /\ LocalsOf(j)' = LocalsOf(j)]_vars

\* Two calls have returned at once, each with a move the other's request
\* does not allow.
C9_Witness ==
    \E h \in Handlers : \E j \in Handlers \ {h} :
        /\ pc[h] = "moved" /\ pc[j] = "moved"
        /\ move[h] \notin PossibleResponses(request[j])
        /\ move[j] \notin PossibleResponses(request[h])

(***************************************************************************)
(* C10: a /move, /start or /end request whose body fails to decode is not   *)
(* answered and not recovered from: its handler calls log.Fatal, the        *)
(* process ends, and from then on no handler takes a step, so no request,   *)
(* well-formed ones in flight included, is served.                          *)
(***************************************************************************)
C10_FatalOnMalformed ==
    /\ [](\A h \in Handlers :
              /\ pc[h] = "fatal" => ~alive
              /\ (endpoint[h] # "/" /\ ~body[h].ok) =>
                     pc[h] \in {"received", "fatal"} /\ move[h] = NoResponse)
    /\ [][\A h \in Handlers :
              (pc[h] = "received" /\ endpoint[h] # "/" /\ ~body[h].ok /\ Steps(h))
              => (pc'[h] = "fatal" /\ ~alive')]_vars
    /\ [][~alive => (~alive' /\ pc' = pc /\ move' = move)]_vars

\* A malformed /move request has ended the process while a well-formed
\* /move request was decoded and waiting for its move.
C10_Witness ==
    \E h \in Handlers : \E j \in Handlers \ {h} :
        /\ ~alive
        /\ pc[h] = "fatal" /\ endpoint[h] = "/move" /\ ~body[h].ok
        /\ pc[j] = "decoded" /\ body[j].ok

====
